---------------------------- MODULE Spec2Model ----------------------------
(***************************************************************************)
(* The goroutine-per-connection TCP server of src/tcp-server/server.go:    *)
(* main binds port 4221 and loops on Accept, starting one goroutine do     *)
(* per accepted connection; do reads one buffer, sleeps, writes a canned   *)
(* response and closes the connection.  log.Fatal ends the whole process.  *)
(* The clients are the environment: they connect, send one request and     *)
(* may close their end at any time.                                        *)
(*                                                                         *)
(* The routers of src/server/server.go and of its two earlier versions     *)
(* (src/unnamed/part_001, src/unnamed/part_000) are modelled separately    *)
(* under RouterSpec: one request is routed by the ServeMux to a handler,   *)
(* which writes the response.                                              *)
(***************************************************************************)
EXTENDS Naturals, Sequences, FiniteSets

\* Number of client connections the environment opens.
MaxConns == 2

\* The concurrency bound of the 1000-clients-against-100 scenario, scaled to
\* the model: one less than the number of clients that connect.
ConcurrencyBound == MaxConns - 1

VARIABLES
    alive,      \* the server process is running
    exitCause,  \* which log.Fatal ended the process
    pcMain,     \* position of main: "listen", "accept" (in l.Accept), "go"
    conn,       \* main's local variable conn
    backlog,    \* connections established by clients, not yet accepted
    client,     \* client side of each connection
    inbuf,      \* request bytes received on a connection and not yet read
    sock,       \* server side of each connection
    wire,       \* bytes the server has written to each connection
    pc,         \* position of each goroutine do
    taskConn,   \* the conn parameter of each goroutine do
    buf,        \* the buffer of each goroutine do
    steps,      \* the calls each task has completed, in order
    users,      \* the tasks that have read, written or closed each connection
    lusers,     \* the tasks that have used the listener
    rvariant,   \* router: which of the three router programs runs
    rmethod,    \* router: r.Method of the request
    rpath,      \* router: r.URL.Path of the request, as its segments
    rpc,        \* router: "off", "request", "handler" or "done"
    rhandler,   \* router: the handler the ServeMux selected
    rstatus,    \* router: status code of the response
    rbody,      \* router: body the handler wrote
    rallow      \* router: Allow header of the response

tcpVars == <<alive, exitCause, pcMain, conn, backlog, client, inbuf, sock, wire,
             pc, taskConn, buf, steps, users, lusers>>
routerVars == <<rvariant, rmethod, rpath, rpc, rhandler, rstatus, rbody, rallow>>
vars == <<tcpVars, routerVars>>

Conns == 1..MaxConns
Handlers == 1..MaxConns
Main == 0
Tasks == {Main} \cup Handlers
NoConn == 0
NoReq == "none"
NoResp == ""
Requests == {"GET / HTTP/1.1", "POST /x HTTP/1.1 0123456789"}
Response == "HTTP/1.1 200 OK\r\n\r\nHey Client!\r\n"

Has(s, x) == \E i \in DOMAIN s : s[i] = x
Last(s) == s[Len(s)]
Spawned == {t \in Handlers : pc[t] # "none"}
NextTask == Cardinality(Spawned) + 1

\* The router is not part of the TCP server's process.
RouterOff ==
    /\ rvariant = "none"
    /\ rmethod = "none"
    /\ rpath = <<>>
    /\ rpc = "off"
    /\ rhandler = "none"
    /\ rstatus = 0
    /\ rbody = ""
    /\ rallow = ""

Init ==
    /\ RouterOff
    /\ alive = TRUE
    /\ exitCause = "none"
    /\ pcMain = "listen"
    /\ conn = NoConn
    /\ backlog = <<>>
    /\ client = [c \in Conns |-> "idle"]
    /\ inbuf = [c \in Conns |-> NoReq]
    /\ sock = [c \in Conns |-> "none"]
    /\ wire = [c \in Conns |-> NoResp]
    /\ pc = [t \in Handlers |-> "none"]
    /\ taskConn = [t \in Handlers |-> NoConn]
    /\ buf = [t \in Handlers |-> NoReq]
    /\ steps = [t \in Tasks |-> <<>>]
    /\ users = [c \in Conns |-> {}]
    /\ lusers = {}

\* log.Fatal: the message is printed and os.Exit(1) ends the process; the
\* operating system releases every socket the process still holds.
Fatal(cause) ==
    /\ alive' = FALSE
    /\ exitCause' = cause
    /\ sock' = [c \in Conns |-> IF sock[c] = "open" THEN "released" ELSE sock[c]]

---------------------------------------------------------------------------
\* The clients.

ClientConnect(c) ==
    /\ alive
    /\ pcMain # "listen"
    /\ client[c] = "idle"
    /\ client' = [client EXCEPT ![c] = "connected"]
    /\ backlog' = Append(backlog, c)
    /\ UNCHANGED <<alive, exitCause, pcMain, conn, inbuf, sock, wire, pc,
                   taskConn, buf, steps, users, lusers>>
    /\ UNCHANGED routerVars

ClientSend(c, r) ==
    /\ alive
    /\ client[c] = "connected"
    /\ sock[c] \in {"none", "open"}
    /\ client' = [client EXCEPT ![c] = "sent"]
    /\ inbuf' = [inbuf EXCEPT ![c] = r]
    /\ UNCHANGED <<alive, exitCause, pcMain, conn, backlog, sock, wire, pc,
                   taskConn, buf, steps, users, lusers>>
    /\ UNCHANGED routerVars

ClientClose(c) ==
    /\ client[c] \in {"connected", "sent"}
    /\ client' = [client EXCEPT ![c] = "closed"]
    /\ UNCHANGED <<alive, exitCause, pcMain, conn, backlog, inbuf, sock, wire,
                   pc, taskConn, buf, steps, users, lusers>>
    /\ UNCHANGED routerVars

---------------------------------------------------------------------------
\* main.

Listen ==
    /\ alive
    /\ pcMain = "listen"
    /\ pcMain' = "accept"
    /\ steps' = [steps EXCEPT ![Main] = Append(@, "listen")]
    /\ lusers' = lusers \cup {Main}
    /\ UNCHANGED <<alive, exitCause, conn, backlog, client, inbuf, sock, wire,
                   pc, taskConn, buf, users>>
    /\ UNCHANGED routerVars

ListenFail ==
    /\ alive
    /\ pcMain = "listen"
    /\ Fatal("bind")
    /\ steps' = [steps EXCEPT ![Main] = Append(@, "listenErr")]
    /\ lusers' = lusers \cup {Main}
    /\ UNCHANGED <<pcMain, conn, backlog, client, inbuf, wire, pc, taskConn,
                   buf, users>>
    /\ UNCHANGED routerVars

AcceptOk ==
    /\ alive
    /\ pcMain = "accept"
    /\ backlog # <<>>
    /\ conn' = Head(backlog)
    /\ backlog' = Tail(backlog)
    /\ sock' = [sock EXCEPT ![Head(backlog)] = "open"]
    /\ pcMain' = "go"
    /\ steps' = [steps EXCEPT ![Main] = Append(@, "accept")]
    /\ lusers' = lusers \cup {Main}
    /\ UNCHANGED <<alive, exitCause, client, inbuf, wire, pc, taskConn, buf,
                   users>>
    /\ UNCHANGED routerVars

AcceptFail ==
    /\ alive
    /\ pcMain = "accept"
    /\ Fatal("accept")
    /\ steps' = [steps EXCEPT ![Main] = Append(@, "acceptErr")]
    /\ lusers' = lusers \cup {Main}
    /\ UNCHANGED <<pcMain, conn, backlog, client, inbuf, wire, pc, taskConn,
                   buf, users>>
    /\ UNCHANGED routerVars

\* main with the go keyword removed: do(conn) runs inside the accept loop and
\* main is in the call until it returns.
GoDoInline ==
    /\ alive
    /\ pcMain = "go"
    /\ pc' = [pc EXCEPT ![NextTask] = "read"]
    /\ taskConn' = [taskConn EXCEPT ![NextTask] = conn]
    /\ conn' = NoConn
    /\ pcMain' = "call"
    /\ steps' = [steps EXCEPT ![Main] = Append(@, "go")]
    /\ UNCHANGED <<alive, exitCause, backlog, client, inbuf, sock, wire, buf,
                   users, lusers>>
    /\ UNCHANGED routerVars

\* main closing the connection itself once the goroutine is started.
GoDoThenClose ==
    /\ alive
    /\ pcMain = "go"
    /\ pc' = [pc EXCEPT ![NextTask] = "read"]
    /\ taskConn' = [taskConn EXCEPT ![NextTask] = conn]
    /\ conn' = NoConn
    /\ pcMain' = "accept"
    /\ steps' = [steps EXCEPT ![Main] = Append(@, "go")]
    /\ sock' = [sock EXCEPT ![conn] = "closed"]
    /\ users' = [users EXCEPT ![conn] = @ \cup {Main}]
    /\ UNCHANGED <<alive, exitCause, backlog, client, inbuf, wire, buf, lusers>>
    /\ UNCHANGED routerVars

GoDo ==
    /\ alive
    /\ pcMain = "go"
    /\ pc' = [pc EXCEPT ![NextTask] = "read"]
    /\ taskConn' = [taskConn EXCEPT ![NextTask] = conn]
    /\ conn' = NoConn
    /\ pcMain' = "accept"
    /\ steps' = [steps EXCEPT ![Main] = Append(@, "go")]
    /\ UNCHANGED <<alive, exitCause, backlog, client, inbuf, sock, wire, buf,
                   users, lusers>>
    /\ UNCHANGED routerVars

---------------------------------------------------------------------------
\* do(conn), one goroutine per accepted connection.

\* do without the time.Sleep between the read and the write.
ReadNoDelay(t) ==
    /\ alive
    /\ pc[t] = "read"
    /\ inbuf[taskConn[t]] # NoReq
    /\ buf' = [buf EXCEPT ![t] = inbuf[taskConn[t]]]
    /\ inbuf' = [inbuf EXCEPT ![taskConn[t]] = NoReq]
    /\ pc' = [pc EXCEPT ![t] = "write"]
    /\ steps' = [steps EXCEPT ![t] = Append(@, "read")]
    /\ users' = [users EXCEPT ![taskConn[t]] = @ \cup {t}]
    /\ UNCHANGED <<alive, exitCause, pcMain, conn, backlog, client, sock, wire,
                   taskConn, lusers>>
    /\ UNCHANGED routerVars

Read(t) ==
    /\ alive
    /\ pc[t] = "read"
    /\ inbuf[taskConn[t]] # NoReq
    /\ buf' = [buf EXCEPT ![t] = inbuf[taskConn[t]]]
    /\ inbuf' = [inbuf EXCEPT ![taskConn[t]] = NoReq]
    /\ pc' = [pc EXCEPT ![t] = "sleep"]
    /\ steps' = [steps EXCEPT ![t] = Append(@, "read")]
    /\ users' = [users EXCEPT ![taskConn[t]] = @ \cup {t}]
    /\ UNCHANGED <<alive, exitCause, pcMain, conn, backlog, client, sock, wire,
                   taskConn, lusers>>
    /\ UNCHANGED routerVars

\* do returning on a read error (log.Print and return) instead of log.Fatal.
ReadFailReturn(t) ==
    /\ alive
    /\ pc[t] = "read"
    /\ inbuf[taskConn[t]] = NoReq
    /\ client[taskConn[t]] = "closed"
    /\ pc' = [pc EXCEPT ![t] = "done"]
    /\ steps' = [steps EXCEPT ![t] = Append(@, "readErr")]
    /\ users' = [users EXCEPT ![taskConn[t]] = @ \cup {t}]
    /\ UNCHANGED <<alive, exitCause, pcMain, conn, backlog, client, inbuf, sock,
                   wire, taskConn, buf, lusers>>
    /\ UNCHANGED routerVars

ReadFail(t) ==
    /\ alive
    /\ pc[t] = "read"
    /\ inbuf[taskConn[t]] = NoReq
    /\ client[taskConn[t]] = "closed"
    /\ Fatal("read")
    /\ steps' = [steps EXCEPT ![t] = Append(@, "readErr")]
    /\ users' = [users EXCEPT ![taskConn[t]] = @ \cup {t}]
    /\ UNCHANGED <<pcMain, conn, backlog, client, inbuf, wire, pc, taskConn,
                   buf, lusers>>
    /\ UNCHANGED routerVars

SleepDone(t) ==
    /\ alive
    /\ pc[t] = "sleep"
    /\ pc' = [pc EXCEPT ![t] = "write"]
    /\ steps' = [steps EXCEPT ![t] = Append(@, "sleep")]
    /\ UNCHANGED <<alive, exitCause, pcMain, conn, backlog, client, inbuf, sock,
                   wire, taskConn, buf, users, lusers>>
    /\ UNCHANGED routerVars

\* do answering with what it read instead of the fixed literal.
WriteEcho(t) ==
    /\ alive
    /\ pc[t] = "write"
    /\ wire' = [wire EXCEPT ![taskConn[t]] = buf[t]]
    /\ pc' = [pc EXCEPT ![t] = "defer"]
    /\ steps' = [steps EXCEPT ![t] = Append(@, "write")]
    /\ users' = [users EXCEPT ![taskConn[t]] = @ \cup {t}]
    /\ UNCHANGED <<alive, exitCause, pcMain, conn, backlog, client, inbuf, sock,
                   taskConn, buf, lusers>>
    /\ UNCHANGED routerVars

WriteOk(t) ==
    /\ alive
    /\ pc[t] = "write"
    /\ wire' = [wire EXCEPT ![taskConn[t]] = Response]
    /\ pc' = [pc EXCEPT ![t] = "defer"]
    /\ steps' = [steps EXCEPT ![t] = Append(@, "write")]
    /\ users' = [users EXCEPT ![taskConn[t]] = @ \cup {t}]
    /\ UNCHANGED <<alive, exitCause, pcMain, conn, backlog, client, inbuf, sock,
                   taskConn, buf, lusers>>
    /\ UNCHANGED routerVars

\* do returning on a write error before the Close is deferred.
WriteFailReturn(t) ==
    /\ alive
    /\ pc[t] = "write"
    /\ client[taskConn[t]] = "closed"
    /\ pc' = [pc EXCEPT ![t] = "done"]
    /\ steps' = [steps EXCEPT ![t] = Append(@, "writeErr")]
    /\ users' = [users EXCEPT ![taskConn[t]] = @ \cup {t}]
    /\ UNCHANGED <<alive, exitCause, pcMain, conn, backlog, client, inbuf, sock,
                   wire, taskConn, buf, lusers>>
    /\ UNCHANGED routerVars

\* do treating a write error like a read error: log.Fatal.
WriteFailFatal(t) ==
    /\ alive
    /\ pc[t] = "write"
    /\ client[taskConn[t]] = "closed"
    /\ Fatal("write")
    /\ steps' = [steps EXCEPT ![t] = Append(@, "writeErr")]
    /\ users' = [users EXCEPT ![taskConn[t]] = @ \cup {t}]
    /\ UNCHANGED <<pcMain, conn, backlog, client, inbuf, wire, pc, taskConn,
                   buf, lusers>>
    /\ UNCHANGED routerVars

WriteFail(t) ==
    /\ alive
    /\ pc[t] = "write"
    /\ client[taskConn[t]] = "closed"
    /\ pc' = [pc EXCEPT ![t] = "defer"]
    /\ steps' = [steps EXCEPT ![t] = Append(@, "writeErr")]
    /\ users' = [users EXCEPT ![taskConn[t]] = @ \cup {t}]
    /\ UNCHANGED <<alive, exitCause, pcMain, conn, backlog, client, inbuf, sock,
                   wire, taskConn, buf, lusers>>
    /\ UNCHANGED routerVars

Close(t) ==
    /\ alive
    /\ pc[t] = "defer"
    /\ sock' = [sock EXCEPT ![taskConn[t]] = "closed"]
    /\ pc' = [pc EXCEPT ![t] = "done"]
    /\ steps' = [steps EXCEPT ![t] = Append(@, "close")]
    /\ users' = [users EXCEPT ![taskConn[t]] = @ \cup {t}]
    /\ UNCHANGED <<alive, exitCause, pcMain, conn, backlog, client, inbuf, wire,
                   taskConn, buf, lusers>>
    /\ UNCHANGED routerVars

---------------------------------------------------------------------------

Next ==
    \/ \E c \in Conns : ClientConnect(c)
    \/ \E c \in Conns, r \in Requests : ClientSend(c, r)
    \/ \E c \in Conns : ClientClose(c)
    \/ Listen
    \/ ListenFail
    \/ AcceptOk
    \/ AcceptFail
    \/ GoDo
    \/ \E t \in Handlers : Read(t)
    \/ \E t \in Handlers : ReadFail(t)
    \/ \E t \in Handlers : SleepDone(t)
    \/ \E t \in Handlers : WriteOk(t)
    \/ \E t \in Handlers : WriteFail(t)
    \/ \E t \in Handlers : Close(t)

Spec == Init /\ [][Next]_vars

\* The scheduling of the server's own steps: a call that can return does
\* return, a runnable goroutine runs.  Nothing obliges a client to act, and
\* nothing obliges Accept to fail.
FairSpec ==
    /\ Spec
    /\ WF_vars(Listen \/ ListenFail)
    /\ WF_vars(AcceptOk)
    /\ WF_vars(GoDo)
    /\ \A t \in Handlers :
        /\ WF_vars(Read(t))
        /\ WF_vars(ReadFail(t))
        /\ WF_vars(SleepDone(t))
        /\ WF_vars(WriteOk(t) \/ WriteFail(t))
        /\ WF_vars(Close(t))

---------------------------------------------------------------------------
\* Definitions used to state the properties.

HandlersOf(c) == {t \in Handlers : taskConn[t] = c}
InFlight(t) == pc[t] \in {"read", "sleep", "write", "defer"}
OpenHandlers == {t \in Handlers : InFlight(t)}
Failed ==
    \/ Has(steps[Main], "listenErr")
    \/ Has(steps[Main], "acceptErr")
    \/ \E t \in Handlers : Has(steps[t], "readErr")
ServerVars == <<alive, exitCause, pcMain, conn, backlog, inbuf, sock, wire, pc,
                taskConn, buf, steps, users, lusers>>
HandlerOrder == <<"read", "sleep", "write", "close">>
StepKind(x) == IF x = "writeErr" THEN "write" ELSE x

---------------------------------------------------------------------------
\* C1: while the process is alive and the port is bound, main is never held
\* up by a handler: right after an accept the go statement can run, and
\* otherwise a pending client can be accepted, whatever the handlers of the
\* other connections are doing.
C1_AcceptorNeverWaits ==
    (alive /\ pcMain # "listen") =>
        /\ pcMain = "go" => ENABLED GoDo
        /\ (pcMain # "go" /\ backlog # <<>>) => ENABLED AcceptOk

\* A client is pending and can be accepted while one handler is blocked in
\* Read on a silent client and main is back in Accept.
C1_Witness ==
    /\ alive
    /\ pcMain = "accept"
    /\ backlog # <<>>
    /\ \E t \in Handlers :
        /\ pc[t] = "read"
        /\ inbuf[taskConn[t]] = NoReq
        /\ client[taskConn[t]] = "connected"
    /\ ENABLED AcceptOk

\* C2: every connection has at most one handler goroutine and, once main has
\* dispatched it, exactly one; only that goroutine has read, written or
\* closed it; main has not touched the connection it holds between Accept
\* and go, and only main has used the listener.
C2_ConnectionOwnership ==
    /\ \A c \in Conns :
        /\ Cardinality(HandlersOf(c)) <= 1
        /\ (sock[c] # "none" /\ conn # c) => Cardinality(HandlersOf(c)) = 1
        /\ users[c] \subseteq HandlersOf(c)
    /\ lusers \subseteq {Main}

\* Two connections, each used by its own handler and by nobody else.
C2_Witness ==
    \E t1, t2 \in Handlers :
        /\ t1 # t2
        /\ pc[t1] = "done"
        /\ pc[t2] \in {"sleep", "write", "defer", "done"}
        /\ taskConn[t1] # taskConn[t2]
        /\ users[taskConn[t1]] = {t1}
        /\ users[taskConn[t2]] = {t2}

\* C3: a bind failure, an accept failure and a read failure each end the
\* process, and from then on no part of the server changes: main accepts
\* nothing and no handler takes a step.
C3_FailureTerminatesProcess ==
    [][(Failed' => ~alive') /\ (Failed => UNCHANGED ServerVars)]_vars

\* One connection's read has failed while the handler of another connection
\* was part-way through and a further client was waiting or being served.
C3_Witness ==
    /\ ~alive
    /\ exitCause = "read"
    /\ \E t1, t2 \in Handlers :
        /\ Has(steps[t1], "readErr")
        /\ t2 # t1
        /\ pc[t2] \in {"sleep", "write", "defer"}

\* C4: a handler whose read succeeded performs read, delay, write, close in
\* that order and nothing else: the response is on the wire only after the
\* read and the delay, the connection is closed only after the write, by its
\* handler, and the close is the handler's last step.
C4_HandlerStepOrder ==
    \A t \in Spawned :
        /\ ~Has(steps[t], "readErr") =>
            /\ Len(steps[t]) <= Len(HandlerOrder)
            /\ \A i \in DOMAIN steps[t] : StepKind(steps[t][i]) = HandlerOrder[i]
        /\ wire[taskConn[t]] # NoResp =>
            /\ Len(steps[t]) >= 3
            /\ steps[t][1] = "read" /\ steps[t][2] = "sleep" /\ steps[t][3] = "write"
        /\ sock[taskConn[t]] = "closed" =>
            /\ Len(steps[t]) = 4
            /\ Last(steps[t]) = "close"
            /\ t \in users[taskConn[t]]
            /\ pc[t] = "done"

\* A handler has gone through all four steps and its client has the response.
C4_Witness ==
    \E t \in Handlers :
        /\ steps[t] = <<"read", "sleep", "write", "close">>
        /\ wire[taskConn[t]] = Response
        /\ sock[taskConn[t]] = "closed"

\* C5: a handler that has made its write, successful or not, goes on to
\* close the connection: while the process runs the close is its next step,
\* and a handler that has returned has left the connection closed; no such
\* connection is left open.
C5_ClosedAfterEitherWrite ==
    \A t \in Spawned :
        (Has(steps[t], "write") \/ Has(steps[t], "writeErr")) =>
            \/ pc[t] = "done" /\ sock[taskConn[t]] = "closed"
            \/ pc[t] = "defer" /\ alive /\ ENABLED Close(t)
            \/ pc[t] = "defer" /\ ~alive /\ sock[taskConn[t]] = "released"

\* One handler returned after a successful write and another after a failed
\* write, and both connections are closed.
C5_Witness ==
    \E t1, t2 \in Handlers :
        /\ pc[t1] = "done" /\ Has(steps[t1], "write")
        /\ pc[t2] = "done" /\ Has(steps[t2], "writeErr")
        /\ sock[taskConn[t1]] = "closed"
        /\ sock[taskConn[t2]] = "closed"

\* C6: every way a handler ends, returning or ending the process on a read
\* error, leaves its connection closed by that handler.
C6_EveryExitPathCloses ==
    \A t \in Spawned :
        (pc[t] = "done" \/ Has(steps[t], "readErr")) =>
            /\ sock[taskConn[t]] = "closed"
            /\ Has(steps[t], "close")

\* C7: the number of handlers started and not yet returned never exceeds the
\* concurrency bound, however many clients connect.
C7_BoundedOpenHandlers ==
    Cardinality(OpenHandlers) <= ConcurrencyBound

\* C8: a client that is connected, has sent its request and is waiting is
\* not left unanswered for good, whatever happens on the other connections:
\* when the Read of another connection has failed and the process has
\* stopped, after which nothing more is ever written, that client has had
\* the response written to its connection.
C8_EveryClientAnswered ==
    (~alive /\ exitCause = "read") =>
        \A c \in Conns :
            (sock[c] # "none" /\ client[c] = "sent") => wire[c] = Response

\* C9: an accepted connection whose client stays connected and silent does
\* not stay open for ever: the server ends up closing it (or the client
\* stops being silent).
C9_IdleConnectionClosed ==
    \A c \in Conns :
        (sock[c] = "open" /\ client[c] = "connected")
            ~> (sock[c] # "open" \/ client[c] # "connected")

C11_ResponseIndependentOfRequest ==
    /\ \A c \in Conns : wire[c] \in {NoResp, Response}
    /\ \A t1, t2 \in Spawned :
        ( /\ buf[t1] # NoReq /\ buf[t2] # NoReq
          /\ buf[t1] # buf[t2]
          /\ pc[t1] = pc[t2]
          /\ Has(steps[t1], "writeErr") <=> Has(steps[t2], "writeErr") ) =>
            /\ steps[t1] = steps[t2]
            /\ wire[taskConn[t1]] = wire[taskConn[t2]]

\* Two handlers read different requests and both have written the response.
C11_Witness ==
    \E t1, t2 \in Handlers :
        /\ buf[t1] # NoReq /\ buf[t2] # NoReq
        /\ buf[t1] # buf[t2]
        /\ pc[t1] = "done" /\ pc[t2] = "done"
        /\ wire[taskConn[t1]] = Response
        /\ wire[taskConn[t2]] = Response

---------------------------------------------------------------------------
\* The routers.  A request path is the sequence of its segments: "/" is
\* <<"">>, "/user" is <<"user">>, "/user/" is <<"user", "">>, "//user" is
\* <<"", "user">>.

Variants == {"basic", "create", "go122"}
Methods == {"GET", "HEAD", "POST", "PUT", "DELETE"}
Paths ==
    { <<"">>, <<"user">>, <<"user", "">>, <<"user", "42">>,
      <<"user", "42", "x">>, <<"posts">>, <<"posts", "">>,
      <<"posts", "create">>, <<"posts", "create", "">>, <<"other">>,
      <<"", "user">>, <<"posts", "..", "user">>, <<".", "">>, <<"", "">> }

HomeBody == "2024 is for Go!"
PostsBody == "Your posts were here..."
PostCreateBody == "You can create new posts here!"
NotFoundBody == "404 page not found"
NotAllowedBody == "Method not Allowed"
UserBody(v) == IF v = "go122" THEN "{\"name\":\"Amit\"}" ELSE "Hello User"

\* A registered pattern: method ("" when the pattern names none), the
\* segments of its path ("{}" for a wildcard segment), whether it ends in a
\* slash (a subtree pattern), and its handler.
Route(m, segs, sub, h) ==
    [method |-> m, segs |-> segs, subtree |-> sub, handler |-> h]

\* The registrations of main in each of the three programs.
Routes(v) ==
    IF v = "basic" THEN
        { Route("", <<>>, TRUE, "home"),
          Route("", <<"user">>, FALSE, "user"),
          Route("", <<"posts">>, FALSE, "posts") }
    ELSE IF v = "create" THEN
        { Route("", <<>>, TRUE, "home"),
          Route("", <<"user">>, FALSE, "user"),
          Route("", <<"posts">>, FALSE, "posts"),
          Route("", <<"posts", "create">>, FALSE, "postCreate") }
    ELSE
        { Route("", <<>>, TRUE, "home"),
          Route("", <<"user">>, FALSE, "user"),
          Route("", <<"user", "{}">>, FALSE, "userById"),
          Route("GET", <<"posts">>, FALSE, "posts"),
          Route("POST", <<"posts", "create">>, FALSE, "postCreate") }

\* path.Clean on the segments: empty and "." segments are dropped, ".."
\* drops the segment before it.
RECURSIVE CleanSegs(_, _)
CleanSegs(p, acc) ==
    IF p = <<>> THEN acc
    ELSE IF Head(p) \in {"", "."} THEN CleanSegs(Tail(p), acc)
    ELSE IF Head(p) = ".." THEN
        CleanSegs(Tail(p), IF acc = <<>> THEN acc
                           ELSE SubSeq(acc, 1, Len(acc) - 1))
    ELSE CleanSegs(Tail(p), Append(acc, Head(p)))

\* The ServeMux's cleanPath: path.Clean, with the trailing slash put back.
CleanPath(p) ==
    LET np == CleanSegs(p, <<>>)
    IN  IF np = <<>> THEN <<"">>
        ELSE IF Last(p) = "" THEN Append(np, "")
        ELSE np

\* Whether the path of a pattern matches a request path.  A fixed pattern
\* matches segment by segment, a wildcard matching any non-empty segment; a
\* subtree pattern matches every path that continues it.
PathMatches(r, p) ==
    IF r.subtree THEN
        /\ Len(p) > Len(r.segs)
        /\ \A i \in DOMAIN r.segs : r.segs[i] = p[i]
    ELSE
        /\ Len(p) = Len(r.segs)
        /\ \A i \in DOMAIN r.segs :
            \/ r.segs[i] = p[i]
            \/ r.segs[i] = "{}" /\ p[i] # ""

HasWildcard(r) == \E i \in DOMAIN r.segs : r.segs[i] = "{}"
Rank(r) ==
    IF r.subtree THEN Len(r.segs)
    ELSE IF HasWildcard(r) THEN Len(r.segs) + 1
    ELSE Len(r.segs) + 2

NoRoute == Route("", <<>>, FALSE, "none")

\* The most specific pattern of a set that matches a path: a literal
\* pattern before one with a wildcard, before the longest subtree pattern.
MatchPath(pats, p) ==
    LET ms == {r \in pats : PathMatches(r, p)}
    IN  IF ms = {} THEN NoRoute
        ELSE CHOOSE r \in ms : \A q \in ms : Rank(q) <= Rank(r)

\* Patterns naming the request's method are tried first, then for a HEAD
\* request the patterns naming GET, then the patterns naming no method.
MatchMethodAndPath(pats, m, p) ==
    LET own == MatchPath({r \in pats : r.method = m}, p)
        get == IF m = "HEAD"
               THEN MatchPath({r \in pats : r.method = "GET"}, p)
               ELSE NoRoute
        any == MatchPath({r \in pats : r.method = ""}, p)
    IN  IF own # NoRoute THEN own
        ELSE IF get # NoRoute THEN get
        ELSE any

\* The handler the ServeMux selects: a redirect to the clean path when the
\* path is not clean, else the matching pattern's handler, else 405 when the
\* path matches under another method and 404 when nothing matches.
FindHandler(v, m, p) ==
    LET n == MatchMethodAndPath(Routes(v), m, CleanPath(p))
    IN  IF CleanPath(p) # p THEN "redirect"
        ELSE IF n # NoRoute THEN n.handler
        ELSE IF \E r \in Routes(v) : PathMatches(r, p) THEN "notAllowed"
        ELSE "notFound"

RouterInit ==
    /\ alive = TRUE
    /\ exitCause = "none"
    /\ pcMain = "listen"
    /\ conn = NoConn
    /\ backlog = <<>>
    /\ client = [c \in Conns |-> "idle"]
    /\ inbuf = [c \in Conns |-> NoReq]
    /\ sock = [c \in Conns |-> "none"]
    /\ wire = [c \in Conns |-> NoResp]
    /\ pc = [t \in Handlers |-> "none"]
    /\ taskConn = [t \in Handlers |-> NoConn]
    /\ buf = [t \in Handlers |-> NoReq]
    /\ steps = [t \in Tasks |-> <<>>]
    /\ users = [c \in Conns |-> {}]
    /\ lusers = {}
    /\ rvariant \in Variants
    /\ rmethod \in Methods
    /\ rpath \in Paths
    /\ rpc = "request"
    /\ rhandler = "none"
    /\ rstatus = 0
    /\ rbody = ""
    /\ rallow = ""

\* What a handler leaves: status, body and Allow header.
Respond(status, body, allow) ==
    /\ rpc' = "done"
    /\ rstatus' = status
    /\ rbody' = body
    /\ rallow' = allow
    /\ UNCHANGED <<rvariant, rmethod, rpath, rhandler>>
    /\ UNCHANGED tcpVars

\* ServeMux.ServeHTTP selects the handler for the request.
MuxDispatch ==
    /\ rpc = "request"
    /\ rhandler' = FindHandler(rvariant, rmethod, rpath)
    /\ rpc' = "handler"
    /\ UNCHANGED <<rvariant, rmethod, rpath, rstatus, rbody, rallow>>
    /\ UNCHANGED tcpVars

\* The handlers the ServeMux supplies itself.
MuxReply ==
    /\ rpc = "handler"
    /\ rhandler \in {"redirect", "notFound", "notAllowed"}
    /\ IF rhandler = "redirect" THEN Respond(301, "", "")
       ELSE IF rhandler = "notFound" THEN Respond(404, NotFoundBody, "")
       ELSE Respond(405, NotAllowedBody, "")

\* home.ServeHTTP without the check of r.URL.Path.
HomeNoCheck ==
    /\ rpc = "handler"
    /\ rhandler = "home"
    /\ Respond(200, HomeBody, "")

Home ==
    /\ rpc = "handler"
    /\ rhandler = "home"
    /\ IF rpath # <<"">> THEN Respond(404, NotFoundBody, "")
       ELSE Respond(200, HomeBody, "")

User ==
    /\ rpc = "handler"
    /\ rhandler = "user"
    /\ Respond(200, UserBody(rvariant), "")

HandleUserById ==
    /\ rpc = "handler"
    /\ rhandler = "userById"
    /\ IF rmethod # "GET" THEN Respond(405, NotAllowedBody, "GET")
       ELSE Respond(200, "Hello user " \o rpath[2], "")

Posts ==
    /\ rpc = "handler"
    /\ rhandler = "posts"
    /\ Respond(200, PostsBody, "")

HandlePostCreate ==
    /\ rpc = "handler"
    /\ rhandler = "postCreate"
    /\ IF rmethod # "POST" THEN Respond(405, NotAllowedBody, "POST")
       ELSE Respond(200, PostCreateBody, "")

RouterNext ==
    \/ MuxDispatch
    \/ MuxReply
    \/ Home
    \/ User
    \/ HandleUserById
    \/ Posts
    \/ HandlePostCreate

RouterSpec == RouterInit /\ [][RouterNext]_vars

---------------------------------------------------------------------------
\* Definitions used to state the properties of the routers.

MethodMatches(r, m) ==
    \/ r.method \in {"", m}
    \/ r.method = "GET" /\ m = "HEAD"
OtherPatternMatches ==
    \E r \in Routes(rvariant) :
        /\ r.handler # "home"
        /\ MethodMatches(r, rmethod)
        /\ PathMatches(r, rpath)
IsClean(p) == CleanPath(p) = p

\* C12: in the Go 1.22 router, a request for /posts with a method other than
\* GET, or for /posts/create with a method other than POST, is answered
\* 404 Not Found.
C12_OtherMethodNotFound ==
    ( /\ rpc = "done"
      /\ rvariant = "go122"
      /\ \/ rpath = <<"posts">> /\ rmethod # "GET"
         \/ rpath = <<"posts", "create">> /\ rmethod # "POST" ) =>
        rstatus = 404

=============================================================================
